---------------------------- MODULE Spec2Model ----------------------------
(***************************************************************************)
(* Model of SwimMouseCursor (src/SwimMouseCursor.cpp): a console utility   *)
(* that confines the mouse cursor to the Minecraft Bedrock window.         *)
(*                                                                         *)
(* The main thread runs wmain's loop (message pump, then a poll tick).     *)
(* The low-level keyboard hook is called on the main thread from the pump. *)
(* The console control handler runs on a thread of its own.                *)
(* The desktop (foreground window, window geometry, overlays) is the       *)
(* environment: it is held in the variable env and read by the queries     *)
(* IsWindow, GetWindowRect, WindowFromPoint, ...                           *)
(***************************************************************************)
EXTENDS Integers, Sequences, FiniteSets, TLC

VARIABLES
    env,              \* the desktop as the Win32 queries report it
    clippingEnabled,  \* static std::atomic<bool> clippingEnabled
    running,          \* static std::atomic<bool> running
    recenterKey,      \* static WORD recenterKey
    keyboardHook,     \* static HHOOK keyboardHook: TRUE when the hook is installed
    hotkeyRegistered, \* RegisterHotKey succeeded: WM_HOTKEY can arrive
    configFile,       \* config.txt: <<>> when it cannot be opened, else <<its first line>>
    loggedKeyName,    \* the key name of the last startup log line that shows one (<<>>: none)
    lastActive,       \* wmain: HWND lastActive
    lastClipped,      \* wmain: bool lastClipped
    osClip,           \* the rectangle of the last ClipCursor call (NoClip: released)
    pc,               \* main thread: "start", "check", "body", "cleanup", "exited", "killed"
    hpc,              \* handler thread: "idle", "release", "returned"
    ctrlType,         \* the control event the handler was called with (NoCtrl: none)
    lastOp,           \* history: "Tick", "Hotkey" or "Startup" when that was the last step, else "none"
    clipArgs,         \* history: the ClipCursor arguments of the last step, in order
    logs,             \* history: the log lines of the last step, in order
    prev,             \* history: lastClipped, osClip, lastActive and configFile before the last step
    hook              \* history: the last keyboard hook call (NoHook: none since)

vars == <<env, clippingEnabled, running, recenterKey, keyboardHook, hotkeyRegistered,
          configFile, loggedKeyName, lastActive, lastClipped, osClip, pc, hpc, ctrlType, lastOp, clipArgs, logs,
          prev, hook>>

(***************************************************************************)
(* Win32 constants used by the program.                                    *)
(***************************************************************************)
HC_ACTION     == 0
WM_KEYDOWN    == 256
WM_KEYUP      == 257
WM_SYSKEYDOWN == 260
WM_SYSKEYUP   == 261
VK_ESCAPE     == 27
VK_TAB        == 9
VK_E          == 69

CTRL_C_EVENT        == 0
CTRL_BREAK_EVENT    == 1
CTRL_CLOSE_EVENT    == 2
CTRL_LOGOFF_EVENT   == 5
CTRL_SHUTDOWN_EVENT == 6

SAMPLE_MARGIN  == 10   \* windowRect.left + 10, windowRect.right - 10
SAMPLE_DIVISOR == 4    \* x += (right - left) / 4

(***************************************************************************)
(* Bounds of the model.                                                    *)
(***************************************************************************)
LoopFuel == 6   \* iterations a sampling loop is followed for
Frame    == 3   \* width of the non-client frame around the client area
Caption  == 4   \* height of the caption above the client area

NULL    == 0
NoClip  == <<>>     \* ClipCursor(nullptr); ClipCursor(&clip) is <<clip>>
NoHook  == <<>>
NoCtrl  == -1

(***************************************************************************)
(* C integer division (truncation toward zero), b > 0.                     *)
(***************************************************************************)
CDiv(a, b) == IF a >= 0 THEN a \div b ELSE -((-a) \div b)

Rect(l, t, r, b) == [left |-> l, top |-> t, right |-> r, bottom |-> b]

(***************************************************************************)
(* Strings are sequences of characters.                                    *)
(***************************************************************************)
TARGET_EXE ==
    <<"M","i","n","e","c","r","a","f","t",".","W","i","n","d","o","w","s",".","e","x","e">>
TITLE_NEEDLE == <<"M","i","n","e","c","r","a","f","t">>

LowerChar(c) ==
    CASE c = "M" -> "m" [] c = "W" -> "w" [] c = "I" -> "i" [] c = "N" -> "n"
      [] c = "E" -> "e" [] c = "C" -> "c" [] c = "R" -> "r" [] c = "A" -> "a"
      [] c = "F" -> "f" [] c = "T" -> "t" [] c = "D" -> "d" [] c = "O" -> "o"
      [] c = "S" -> "s" [] c = "X" -> "x" [] c = "P" -> "p" [] c = "H" -> "h"
      [] OTHER -> c

\* _wcsicmp(a, b) == 0
WcsICmpEqual(a, b) ==
    /\ Len(a) = Len(b)
    /\ \A i \in 1..Len(a) : LowerChar(a[i]) = LowerChar(b[i])

\* wcsstr(s, p) != nullptr
WcsStr(s, p) ==
    \E i \in 0..(Len(s) - Len(p)) : SubSeq(s, i + 1, i + Len(p)) = p

(***************************************************************************)
(* Characters and their codes.                                             *)
(***************************************************************************)
UpperLetters ==
    <<"A","B","C","D","E","F","G","H","I","J","K","L","M",
      "N","O","P","Q","R","S","T","U","V","W","X","Y","Z">>
LowerLetters ==
    <<"a","b","c","d","e","f","g","h","i","j","k","l","m",
      "n","o","p","q","r","s","t","u","v","w","x","y","z">>
Digits == <<"0","1","2","3","4","5","6","7","8","9">>

IndexIn(c, seq) == CHOOSE i \in 1..Len(seq) : seq[i] = c
IsIn(c, seq) == \E i \in 1..Len(seq) : seq[i] = c

\* The code of a letter or digit: 'A' is 65, '0' is 48
Ord(c) ==
    IF IsIn(c, UpperLetters) THEN 64 + IndexIn(c, UpperLetters)
    ELSE 47 + IndexIn(c, Digits)

\* std::string(1, static_cast<char>(vkCode)) for a letter or digit code
Chr(code) ==
    IF code >= 65 THEN UpperLetters[code - 64] ELSE Digits[code - 47]

\* std::toupper
ToUpperChar(c) ==
    IF IsIn(c, LowerLetters) THEN UpperLetters[IndexIn(c, LowerLetters)] ELSE c

\* std::isspace
IsSpace(c) == c \in {" ", "\t", "\n", "\r", "\f"}

\* ToUpper, lines 16-22
ToUpper(str) == [i \in 1..Len(str) |-> ToUpperChar(str[i])]

\* while (!s.empty() && isspace(s.back())) s.pop_back();
RECURSIVE TrimBack(_)
TrimBack(str) ==
    IF str # <<>> /\ IsSpace(str[Len(str)])
    THEN TrimBack(SubSeq(str, 1, Len(str) - 1))
    ELSE str

\* while (!s.empty() && isspace(s.front())) s.erase(0, 1);
RECURSIVE TrimFront(_)
TrimFront(str) ==
    IF str # <<>> /\ IsSpace(str[1])
    THEN TrimFront(SubSeq(str, 2, Len(str)))
    ELSE str

Trim(str) == TrimFront(TrimBack(str))

(***************************************************************************)
(* VirtualKeyParser: the virtual key codes its tables name.                *)
(***************************************************************************)
VK_BACK == 8
VK_RETURN == 13
VK_SHIFT == 16
VK_CONTROL == 17
VK_MENU == 18
VK_SPACE == 32
VK_PRIOR == 33
VK_NEXT == 34
VK_END == 35
VK_HOME == 36
VK_LEFT == 37
VK_UP == 38
VK_RIGHT == 39
VK_DOWN == 40
VK_INSERT == 45
VK_DELETE == 46
VK_NUMPAD0 == 96
VK_NUMPAD1 == 97
VK_NUMPAD2 == 98
VK_NUMPAD3 == 99
VK_NUMPAD4 == 100
VK_NUMPAD5 == 101
VK_NUMPAD6 == 102
VK_NUMPAD7 == 103
VK_NUMPAD8 == 104
VK_NUMPAD9 == 105
VK_F1 == 112
VK_F2 == 113
VK_F3 == 114
VK_F4 == 115
VK_F5 == 116
VK_F6 == 117
VK_F7 == 118
VK_F8 == 119
VK_F9 == 120
VK_F10 == 121
VK_F11 == 122
VK_F12 == 123
VK_LSHIFT == 160
VK_RSHIFT == 161
VK_LCONTROL == 162
VK_RCONTROL == 163
VK_LMENU == 164
VK_RMENU == 165
VK_OEM_1 == 186
VK_OEM_PLUS == 187
VK_OEM_COMMA == 188
VK_OEM_MINUS == 189
VK_OEM_PERIOD == 190
VK_OEM_2 == 191
VK_OEM_3 == 192
VK_OEM_4 == 219
VK_OEM_5 == 220
VK_OEM_6 == 221
VK_OEM_7 == 222

\* GetKeyNameMap, lines 25-105: key name to virtual key code
GetKeyNameMap ==
       (<<"A">> :> Ord("A"))
    @@ (<<"B">> :> Ord("B"))
    @@ (<<"C">> :> Ord("C"))
    @@ (<<"D">> :> Ord("D"))
    @@ (<<"E">> :> Ord("E"))
    @@ (<<"F">> :> Ord("F"))
    @@ (<<"G">> :> Ord("G"))
    @@ (<<"H">> :> Ord("H"))
    @@ (<<"I">> :> Ord("I"))
    @@ (<<"J">> :> Ord("J"))
    @@ (<<"K">> :> Ord("K"))
    @@ (<<"L">> :> Ord("L"))
    @@ (<<"M">> :> Ord("M"))
    @@ (<<"N">> :> Ord("N"))
    @@ (<<"O">> :> Ord("O"))
    @@ (<<"P">> :> Ord("P"))
    @@ (<<"Q">> :> Ord("Q"))
    @@ (<<"R">> :> Ord("R"))
    @@ (<<"S">> :> Ord("S"))
    @@ (<<"T">> :> Ord("T"))
    @@ (<<"U">> :> Ord("U"))
    @@ (<<"V">> :> Ord("V"))
    @@ (<<"W">> :> Ord("W"))
    @@ (<<"X">> :> Ord("X"))
    @@ (<<"Y">> :> Ord("Y"))
    @@ (<<"Z">> :> Ord("Z"))
    @@ (<<"0">> :> Ord("0"))
    @@ (<<"1">> :> Ord("1"))
    @@ (<<"2">> :> Ord("2"))
    @@ (<<"3">> :> Ord("3"))
    @@ (<<"4">> :> Ord("4"))
    @@ (<<"5">> :> Ord("5"))
    @@ (<<"6">> :> Ord("6"))
    @@ (<<"7">> :> Ord("7"))
    @@ (<<"8">> :> Ord("8"))
    @@ (<<"9">> :> Ord("9"))
    @@ (<<"F","1">> :> VK_F1)
    @@ (<<"F","2">> :> VK_F2)
    @@ (<<"F","3">> :> VK_F3)
    @@ (<<"F","4">> :> VK_F4)
    @@ (<<"F","5">> :> VK_F5)
    @@ (<<"F","6">> :> VK_F6)
    @@ (<<"F","7">> :> VK_F7)
    @@ (<<"F","8">> :> VK_F8)
    @@ (<<"F","9">> :> VK_F9)
    @@ (<<"F","1","0">> :> VK_F10)
    @@ (<<"F","1","1">> :> VK_F11)
    @@ (<<"F","1","2">> :> VK_F12)
    @@ (<<"V","K","_","F","1">> :> VK_F1)
    @@ (<<"V","K","_","F","2">> :> VK_F2)
    @@ (<<"V","K","_","F","3">> :> VK_F3)
    @@ (<<"V","K","_","F","4">> :> VK_F4)
    @@ (<<"V","K","_","F","5">> :> VK_F5)
    @@ (<<"V","K","_","F","6">> :> VK_F6)
    @@ (<<"V","K","_","F","7">> :> VK_F7)
    @@ (<<"V","K","_","F","8">> :> VK_F8)
    @@ (<<"V","K","_","F","9">> :> VK_F9)
    @@ (<<"V","K","_","F","1","0">> :> VK_F10)
    @@ (<<"V","K","_","F","1","1">> :> VK_F11)
    @@ (<<"V","K","_","F","1","2">> :> VK_F12)
    @@ (<<"S","P","A","C","E">> :> VK_SPACE)
    @@ (<<"V","K","_","S","P","A","C","E">> :> VK_SPACE)
    @@ (<<"S","P","A","C","E","B","A","R">> :> VK_SPACE)
    @@ (<<"E","N","T","E","R">> :> VK_RETURN)
    @@ (<<"V","K","_","R","E","T","U","R","N">> :> VK_RETURN)
    @@ (<<"R","E","T","U","R","N">> :> VK_RETURN)
    @@ (<<"V","K","_","E","N","T","E","R">> :> VK_RETURN)
    @@ (<<"T","A","B">> :> VK_TAB)
    @@ (<<"V","K","_","T","A","B">> :> VK_TAB)
    @@ (<<"E","S","C">> :> VK_ESCAPE)
    @@ (<<"E","S","C","A","P","E">> :> VK_ESCAPE)
    @@ (<<"V","K","_","E","S","C","A","P","E">> :> VK_ESCAPE)
    @@ (<<"B","A","C","K","S","P","A","C","E">> :> VK_BACK)
    @@ (<<"V","K","_","B","A","C","K">> :> VK_BACK)
    @@ (<<"B","A","C","K">> :> VK_BACK)
    @@ (<<"D","E","L","E","T","E">> :> VK_DELETE)
    @@ (<<"V","K","_","D","E","L","E","T","E">> :> VK_DELETE)
    @@ (<<"D","E","L">> :> VK_DELETE)
    @@ (<<"I","N","S","E","R","T">> :> VK_INSERT)
    @@ (<<"V","K","_","I","N","S","E","R","T">> :> VK_INSERT)
    @@ (<<"I","N","S">> :> VK_INSERT)
    @@ (<<"H","O","M","E">> :> VK_HOME)
    @@ (<<"V","K","_","H","O","M","E">> :> VK_HOME)
    @@ (<<"E","N","D">> :> VK_END)
    @@ (<<"V","K","_","E","N","D">> :> VK_END)
    @@ (<<"P","A","G","E","U","P">> :> VK_PRIOR)
    @@ (<<"V","K","_","P","R","I","O","R">> :> VK_PRIOR)
    @@ (<<"P","G","U","P">> :> VK_PRIOR)
    @@ (<<"P","A","G","E","D","O","W","N">> :> VK_NEXT)
    @@ (<<"V","K","_","N","E","X","T">> :> VK_NEXT)
    @@ (<<"P","G","D","N">> :> VK_NEXT)
    @@ (<<"L","E","F","T">> :> VK_LEFT)
    @@ (<<"V","K","_","L","E","F","T">> :> VK_LEFT)
    @@ (<<"R","I","G","H","T">> :> VK_RIGHT)
    @@ (<<"V","K","_","R","I","G","H","T">> :> VK_RIGHT)
    @@ (<<"U","P">> :> VK_UP)
    @@ (<<"V","K","_","U","P">> :> VK_UP)
    @@ (<<"D","O","W","N">> :> VK_DOWN)
    @@ (<<"V","K","_","D","O","W","N">> :> VK_DOWN)
    @@ (<<"S","H","I","F","T">> :> VK_SHIFT)
    @@ (<<"V","K","_","S","H","I","F","T">> :> VK_SHIFT)
    @@ (<<"L","S","H","I","F","T">> :> VK_LSHIFT)
    @@ (<<"V","K","_","L","S","H","I","F","T">> :> VK_LSHIFT)
    @@ (<<"R","S","H","I","F","T">> :> VK_RSHIFT)
    @@ (<<"V","K","_","R","S","H","I","F","T">> :> VK_RSHIFT)
    @@ (<<"C","T","R","L">> :> VK_CONTROL)
    @@ (<<"C","O","N","T","R","O","L">> :> VK_CONTROL)
    @@ (<<"V","K","_","C","O","N","T","R","O","L">> :> VK_CONTROL)
    @@ (<<"L","C","T","R","L">> :> VK_LCONTROL)
    @@ (<<"L","C","O","N","T","R","O","L">> :> VK_LCONTROL)
    @@ (<<"V","K","_","L","C","O","N","T","R","O","L">> :> VK_LCONTROL)
    @@ (<<"R","C","T","R","L">> :> VK_RCONTROL)
    @@ (<<"R","C","O","N","T","R","O","L">> :> VK_RCONTROL)
    @@ (<<"V","K","_","R","C","O","N","T","R","O","L">> :> VK_RCONTROL)
    @@ (<<"A","L","T">> :> VK_MENU)
    @@ (<<"V","K","_","M","E","N","U">> :> VK_MENU)
    @@ (<<"L","A","L","T">> :> VK_LMENU)
    @@ (<<"V","K","_","L","M","E","N","U">> :> VK_LMENU)
    @@ (<<"R","A","L","T">> :> VK_RMENU)
    @@ (<<"V","K","_","R","M","E","N","U">> :> VK_RMENU)
    @@ (<<"N","U","M","P","A","D","0">> :> VK_NUMPAD0)
    @@ (<<"V","K","_","N","U","M","P","A","D","0">> :> VK_NUMPAD0)
    @@ (<<"N","U","M","P","A","D","1">> :> VK_NUMPAD1)
    @@ (<<"V","K","_","N","U","M","P","A","D","1">> :> VK_NUMPAD1)
    @@ (<<"N","U","M","P","A","D","2">> :> VK_NUMPAD2)
    @@ (<<"V","K","_","N","U","M","P","A","D","2">> :> VK_NUMPAD2)
    @@ (<<"N","U","M","P","A","D","3">> :> VK_NUMPAD3)
    @@ (<<"V","K","_","N","U","M","P","A","D","3">> :> VK_NUMPAD3)
    @@ (<<"N","U","M","P","A","D","4">> :> VK_NUMPAD4)
    @@ (<<"V","K","_","N","U","M","P","A","D","4">> :> VK_NUMPAD4)
    @@ (<<"N","U","M","P","A","D","5">> :> VK_NUMPAD5)
    @@ (<<"V","K","_","N","U","M","P","A","D","5">> :> VK_NUMPAD5)
    @@ (<<"N","U","M","P","A","D","6">> :> VK_NUMPAD6)
    @@ (<<"V","K","_","N","U","M","P","A","D","6">> :> VK_NUMPAD6)
    @@ (<<"N","U","M","P","A","D","7">> :> VK_NUMPAD7)
    @@ (<<"V","K","_","N","U","M","P","A","D","7">> :> VK_NUMPAD7)
    @@ (<<"N","U","M","P","A","D","8">> :> VK_NUMPAD8)
    @@ (<<"V","K","_","N","U","M","P","A","D","8">> :> VK_NUMPAD8)
    @@ (<<"N","U","M","P","A","D","9">> :> VK_NUMPAD9)
    @@ (<<"V","K","_","N","U","M","P","A","D","9">> :> VK_NUMPAD9)
    @@ (<<"S","E","M","I","C","O","L","O","N">> :> VK_OEM_1)
    @@ (<<"V","K","_","O","E","M","_","1">> :> VK_OEM_1)
    @@ (<<"P","L","U","S">> :> VK_OEM_PLUS)
    @@ (<<"V","K","_","O","E","M","_","P","L","U","S">> :> VK_OEM_PLUS)
    @@ (<<"C","O","M","M","A">> :> VK_OEM_COMMA)
    @@ (<<"V","K","_","O","E","M","_","C","O","M","M","A">> :> VK_OEM_COMMA)
    @@ (<<"M","I","N","U","S">> :> VK_OEM_MINUS)
    @@ (<<"V","K","_","O","E","M","_","M","I","N","U","S">> :> VK_OEM_MINUS)
    @@ (<<"P","E","R","I","O","D">> :> VK_OEM_PERIOD)
    @@ (<<"V","K","_","O","E","M","_","P","E","R","I","O","D">> :> VK_OEM_PERIOD)
    @@ (<<"S","L","A","S","H">> :> VK_OEM_2)
    @@ (<<"V","K","_","O","E","M","_","2">> :> VK_OEM_2)
    @@ (<<"T","I","L","D","E">> :> VK_OEM_3)
    @@ (<<"V","K","_","O","E","M","_","3">> :> VK_OEM_3)
    @@ (<<"L","E","F","T","B","R","A","C","K","E","T">> :> VK_OEM_4)
    @@ (<<"V","K","_","O","E","M","_","4">> :> VK_OEM_4)
    @@ (<<"B","A","C","K","S","L","A","S","H">> :> VK_OEM_5)
    @@ (<<"V","K","_","O","E","M","_","5">> :> VK_OEM_5)
    @@ (<<"R","I","G","H","T","B","R","A","C","K","E","T">> :> VK_OEM_6)
    @@ (<<"V","K","_","O","E","M","_","6">> :> VK_OEM_6)
    @@ (<<"Q","U","O","T","E">> :> VK_OEM_7)
    @@ (<<"V","K","_","O","E","M","_","7">> :> VK_OEM_7)

\* ParseKeyName, lines 109-146
ParseKeyName(keyName) ==
    IF keyName = <<>> THEN 0
    ELSE LET upperKey == Trim(ToUpper(keyName))
         IN  IF upperKey = <<>> THEN 0
             ELSE IF upperKey \in DOMAIN GetKeyNameMap THEN GetKeyNameMap[upperKey]
             ELSE IF /\ Len(upperKey) = 1
                     /\ (IsIn(upperKey[1], UpperLetters) \/ IsIn(upperKey[1], Digits))
                  THEN Ord(upperKey[1])
             ELSE 0

UNKNOWN_NAME == <<"U","N","K","N","O","W","N">>

\* GetKeyNameFromVK, lines 149-192
GetKeyNameFromVK(vkCode) ==
    IF (vkCode >= Ord("A") /\ vkCode <= Ord("Z")) \/ (vkCode >= Ord("0") /\ vkCode <= Ord("9"))
    THEN <<Chr(vkCode)>>
    ELSE CASE vkCode = VK_SPACE -> <<"S","P","A","C","E">>
           [] vkCode = VK_RETURN -> <<"E","N","T","E","R">>
           [] vkCode = VK_TAB -> <<"T","A","B">>
           [] vkCode = VK_ESCAPE -> <<"E","S","C">>
           [] vkCode = VK_BACK -> <<"B","A","C","K","S","P","A","C","E">>
           [] vkCode = VK_DELETE -> <<"D","E","L","E","T","E">>
           [] vkCode = VK_INSERT -> <<"I","N","S","E","R","T">>
           [] vkCode = VK_HOME -> <<"H","O","M","E">>
           [] vkCode = VK_END -> <<"E","N","D">>
           [] vkCode = VK_PRIOR -> <<"P","A","G","E","U","P">>
           [] vkCode = VK_NEXT -> <<"P","A","G","E","D","O","W","N">>
           [] vkCode = VK_LEFT -> <<"L","E","F","T">>
           [] vkCode = VK_RIGHT -> <<"R","I","G","H","T">>
           [] vkCode = VK_UP -> <<"U","P">>
           [] vkCode = VK_DOWN -> <<"D","O","W","N">>
           [] vkCode = VK_SHIFT -> <<"S","H","I","F","T">>
           [] vkCode = VK_CONTROL -> <<"C","T","R","L">>
           [] vkCode = VK_MENU -> <<"A","L","T">>
           [] vkCode = VK_F1 -> <<"F","1">>
           [] vkCode = VK_F2 -> <<"F","2">>
           [] vkCode = VK_F3 -> <<"F","3">>
           [] vkCode = VK_F4 -> <<"F","4">>
           [] vkCode = VK_F5 -> <<"F","5">>
           [] vkCode = VK_F6 -> <<"F","6">>
           [] vkCode = VK_F7 -> <<"F","7">>
           [] vkCode = VK_F8 -> <<"F","8">>
           [] vkCode = VK_F9 -> <<"F","9">>
           [] vkCode = VK_F10 -> <<"F","1","0">>
           [] vkCode = VK_F11 -> <<"F","1","1">>
           [] vkCode = VK_F12 -> <<"F","1","2">>
           [] OTHER -> UNKNOWN_NAME

(***************************************************************************)
(* LoadRecenterKeyFromConfig, lines 211-262.  file is config.txt: <<>> when *)
(* it cannot be opened, else <<its first line>>; canCreate says whether    *)
(* the file can be opened for writing.  The result holds the key returned, *)
(* the file afterwards, the log lines and <<the key name logged>>.         *)
(***************************************************************************)
DEFAULT_LINE == <<"E">>

\* As LoadRecenterKeyFromConfig, without the test of line 250
LoadRecenterKeyUnchecked(file, canCreate) ==
    IF file = <<>>
    THEN [key |-> VK_E,
          file |-> IF canCreate THEN <<DEFAULT_LINE>> ELSE file,
          logs |-> <<"config not found">>,
          keyName |-> <<>>]
    ELSE LET line == Trim(file[1])
         IN  IF line = <<>>
             THEN [key |-> VK_E, file |-> file,
                   logs |-> <<"config empty">>, keyName |-> <<>>]
             ELSE [key |-> ParseKeyName(line), file |-> file,
                   logs |-> <<"loaded key">>,
                   keyName |-> <<GetKeyNameFromVK(ParseKeyName(line))>>]

LoadRecenterKeyFromConfig(file, canCreate) ==
    IF file = <<>>
    THEN [key |-> VK_E,
          file |-> IF canCreate THEN <<DEFAULT_LINE>> ELSE file,
          logs |-> <<"config not found">>,
          keyName |-> <<>>]
    ELSE LET line == Trim(file[1])
         IN  IF line = <<>>
             THEN [key |-> VK_E, file |-> file,
                   logs |-> <<"config empty">>, keyName |-> <<>>]
             ELSE LET parsedKey == ParseKeyName(line)
                  IN  IF parsedKey # 0
                      THEN [key |-> parsedKey, file |-> file,
                            logs |-> <<"loaded key">>,
                            keyName |-> <<GetKeyNameFromVK(parsedKey)>>]
                      ELSE [key |-> VK_E, file |-> file,
                            logs |-> <<"invalid key", "valid examples">>,
                            keyName |-> <<>>]

(***************************************************************************)
(* The windows of the desktop.  A handle is a number; NULL is 0.  exe is   *)
(* the file name QueryFullProcessImageNameW yields for the owning process, *)
(* <<>> when the process cannot be opened or queried; title is the window  *)
(* text.                                                                   *)
(***************************************************************************)
Windows ==
    [h \in 1..5 |->
        CASE h = 1 -> [exe |-> TARGET_EXE, title |-> TITLE_NEEDLE]
          [] h = 2 -> [exe |-> <<"n","o","t","e","p","a","d",".","e","x","e">>,
                       title |-> <<"N","o","t","e","s">>]
          [] h = 3 -> [exe |-> <<>>,
                       title |-> <<"M","i","n","e","c","r","a","f","t"," ","1",".","2","1">>]
          [] h = 4 -> [exe |-> <<"c","h","r","o","m","e",".","e","x","e">>,
                       title |-> <<"M","i","n","e","c","r","a","f","t"," ","W","i","k","i">>]
          [] h = 5 -> [exe |-> <<"m","i","n","e","c","r","a","f","t",".","w","i","n","d","o","w","s",".","E","X","E">>,
                       title |-> <<"m","i","n","e","c","r","a","f","t">>]]

OtherRoot == 9          \* a top-level window of another application
ChildOf(h) == h + 10    \* a child or owned popup of h, in h's window tree

\* GetAncestor(h, GA_ROOT)
GetAncestor(h) == IF h > 10 THEN h - 10 ELSE h

(***************************************************************************)
(* The environment.  env.cond holds the conditions that deviate from a     *)
(* plain visible window:                                                   *)
(*   "invalid"        IsWindow(fg) is false (the window is already gone)   *)
(*   "hidden"         IsWindowVisible is false                             *)
(*   "iconic"         IsIconic is true                                     *)
(*   "norect"         GetWindowRect fails                                  *)
(*   "nogti"          GetGUIThreadInfo fails                               *)
(*   "noactive"       gti.hwndActive is NULL                               *)
(*   "childactive"    gti.hwndActive is a window of fg's tree              *)
(*   "otheractive"    gti.hwndActive is a window of another tree           *)
(*   "capture_self"   GetCapture returns fg                                *)
(*   "capture_child"  GetCapture returns a window of fg's tree             *)
(*   "capture_other"  GetCapture returns a window of another tree          *)
(*   "noclient"       GetClientRect or ClientToScreen fails                *)
(*   "fg_moved"       the foreground window changed after fg was read     *)
(*   "closed_late"    the window is destroyed after the visibility check   *)
(*   "hidden_late"    the window is hidden after the visibility check      *)
(*   "norect_late"    GetWindowRect fails after the visibility check       *)
(* A query takes the moment it is made at: 1 during the identity and       *)
(* visibility checks, 2 after them (GetWindowClipRect, RecenterCursor).    *)
(***************************************************************************)
IsWindow(e, t) ==
    /\ e.fg # NULL
    /\ "invalid" \notin e.cond
    /\ (t = 2 => "closed_late" \notin e.cond)

IsWindowVisible(e, t) ==
    /\ "hidden" \notin e.cond
    /\ (t = 2 => "hidden_late" \notin e.cond)

IsIconic(e) == "iconic" \in e.cond

GetWindowRectOk(e, t) ==
    /\ IsWindow(e, t)
    /\ "norect" \notin e.cond
    /\ (t = 2 => "norect_late" \notin e.cond)

\* GetForegroundWindow, asked again inside the visibility check
GetForegroundWindow(e) == IF "fg_moved" \in e.cond THEN OtherRoot ELSE e.fg

\* GetGUIThreadInfo succeeded and gti.hwndActive
GuiThreadInfoOk(e) == "nogti" \notin e.cond
HwndActive(e) ==
    IF "noactive" \in e.cond THEN NULL
    ELSE IF "childactive" \in e.cond THEN ChildOf(e.fg)
    ELSE IF "otheractive" \in e.cond THEN OtherRoot
    ELSE e.fg

GetCapture(e) ==
    IF "capture_self" \in e.cond THEN e.fg
    ELSE IF "capture_child" \in e.cond THEN ChildOf(e.fg)
    ELSE IF "capture_other" \in e.cond THEN OtherRoot
    ELSE NULL

InRect(x, y, r) ==
    /\ r.left <= x /\ x < r.right
    /\ r.top <= y /\ y < r.bottom

\* WindowFromPoint: e.over is the region in front of the window (NoOver: an
\* empty one) and e.over.win the window found there (NULL: nothing, the point is off screen).
NoOver == [rect |-> [left |-> 0, top |-> 0, right |-> 0, bottom |-> 0], win |-> NULL]
WindowFromPoint(e, x, y) ==
    IF InRect(x, y, e.over.rect) THEN e.over.win
    ELSE IF InRect(x, y, e.wr) THEN e.fg
    ELSE NULL

(***************************************************************************)
(* GetProcessExeName and IsMinecraftWindow.                                *)
(***************************************************************************)
GetProcessExeName(h) == Windows[h].exe

IsMinecraftIdentity(h) ==
    LET exe == GetProcessExeName(h)
    IN  IF exe # <<>> /\ WcsICmpEqual(exe, TARGET_EXE) THEN TRUE
        ELSE WcsStr(Windows[h].title, TITLE_NEEDLE)

IdentityTable == [h \in 1..5 |-> IsMinecraftIdentity(h)]

IsMinecraftWindow(e) ==
    IF e.fg = NULL \/ ~IsWindow(e, 1) THEN FALSE
    ELSE IdentityTable[e.fg]

(***************************************************************************)
(* IsWindowActuallyVisibleAndTopmost.                                      *)
(***************************************************************************)
\* for (v = from; v < limit; v += step): the values of v the body runs with
RECURSIVE LoopPositions(_, _, _, _)
LoopPositions(v, limit, step, fuel) ==
    IF v < limit /\ fuel > 0
    THEN <<v>> \o LoopPositions(v + step, limit, step, fuel - 1)
    ELSE <<>>

\* As SampleXs, from the window's left edge to its right edge
SampleXsFromEdge(wr) ==
    LoopPositions(wr.left, wr.right,
                  CDiv(wr.right - wr.left, SAMPLE_DIVISOR), LoopFuel)

SampleXs(wr) ==
    LoopPositions(wr.left + SAMPLE_MARGIN, wr.right - SAMPLE_MARGIN,
                  CDiv(wr.right - wr.left, SAMPLE_DIVISOR), LoopFuel)

SampleYs(wr) ==
    LoopPositions(wr.top + SAMPLE_MARGIN, wr.bottom - SAMPLE_MARGIN,
                  CDiv(wr.bottom - wr.top, SAMPLE_DIVISOR), LoopFuel)

NumChecks(e) == Len(SampleXs(e.wr)) * Len(SampleYs(e.wr))

PassedChecks(e) ==
    LET xs == SampleXs(e.wr)
        ys == SampleYs(e.wr)
    IN  Cardinality({ij \in (1..Len(xs)) \X (1..Len(ys)) :
            LET windowAtPoint == WindowFromPoint(e, xs[ij[1]], ys[ij[2]])
            IN  /\ windowAtPoint # NULL
                /\ GetAncestor(windowAtPoint) = GetAncestor(e.fg)})

\* numChecks > 0 && passedChecks < (numChecks * 3 / 4)
SamplingRejects(e) ==
    /\ NumChecks(e) > 0
    /\ PassedChecks(e) < CDiv(NumChecks(e) * 3, 4)

IsWindowActuallyVisibleAndTopmost(e) ==
    IF e.fg = NULL \/ ~IsWindow(e, 1) \/ ~IsWindowVisible(e, 1) THEN FALSE
    ELSE IF IsIconic(e) THEN FALSE
    ELSE IF GetForegroundWindow(e) # e.fg THEN FALSE
    ELSE IF ~GetWindowRectOk(e, 1) THEN FALSE
    ELSE IF e.wr.right <= e.wr.left \/ e.wr.bottom <= e.wr.top THEN FALSE
    ELSE IF /\ GuiThreadInfoOk(e)
            /\ HwndActive(e) # NULL /\ HwndActive(e) # e.fg
            /\ GetAncestor(HwndActive(e)) # GetAncestor(e.fg) THEN FALSE
    ELSE IF SamplingRejects(e) THEN FALSE
    ELSE IF /\ GetCapture(e) # NULL /\ GetCapture(e) # e.fg
            /\ GetAncestor(GetCapture(e)) # GetAncestor(e.fg) THEN FALSE
    ELSE TRUE

ClientRectOk(e) == "noclient" \notin e.cond

\* As GetWindowClipRect, always with the window rectangle
GetWindowClipRectWholeWindow(e) ==
    IF ~IsWindow(e, 2) \/ ~IsWindowVisible(e, 2) THEN [ok |-> FALSE, rect |-> NoClip]
    ELSE IF ~GetWindowRectOk(e, 2) THEN [ok |-> FALSE, rect |-> NoClip]
    ELSE [ok |-> TRUE, rect |-> <<e.wr>>]

(***************************************************************************)
(* GetWindowClipRect: [ok |-> the return value, rect |-> <<outClipRect>>].  *)
(* The client area lies Frame inside the window rectangle on every side    *)
(* and Caption further down from its top; ClientToScreen maps its corners  *)
(* to these screen coordinates.                                            *)
(***************************************************************************)

Max(a, b) == IF a >= b THEN a ELSE b

\* A window too small for its frame has an empty client area.
ClientToScreen(e) ==
    Rect(e.wr.left + Frame, e.wr.top + Frame + Caption,
         Max(e.wr.left + Frame, e.wr.right - Frame),
         Max(e.wr.top + Frame + Caption, e.wr.bottom - Frame))

GetWindowClipRect(e) ==
    IF ~IsWindow(e, 2) \/ ~IsWindowVisible(e, 2) THEN [ok |-> FALSE, rect |-> NoClip]
    ELSE IF ~GetWindowRectOk(e, 2) THEN [ok |-> FALSE, rect |-> NoClip]
    ELSE IF ClientRectOk(e) THEN [ok |-> TRUE, rect |-> <<ClientToScreen(e)>>]
    ELSE [ok |-> TRUE, rect |-> <<e.wr>>]

(***************************************************************************)
(* RecenterCursor: the arguments of SetCursorPos, <<>> when it is not      *)
(* called.  RecenterCursorFloor is the same with the halves rounded down.  *)
(***************************************************************************)
RecenterCursorFloor(e) ==
    IF GetWindowRectOk(e, 2)
    THEN <<(e.wr.left + e.wr.right) \div 2, (e.wr.top + e.wr.bottom) \div 2>>
    ELSE <<>>

RecenterCursor(e) ==
    IF GetWindowRectOk(e, 2)
    THEN <<CDiv(e.wr.left + e.wr.right, 2), CDiv(e.wr.top + e.wr.bottom, 2)>>
    ELSE <<>>

(***************************************************************************)
(* The desktops the model runs in.                                         *)
(***************************************************************************)
RectPlain    == Rect(0, 0, 100, 100)       \* 4 x 4 sample points
RectNegative == Rect(-101, -61, 0, 20)     \* negative coordinates, odd sums
RectNine     == Rect(0, 0, 80, 80)         \* 3 x 3 sample points
RectOne      == Rect(0, 0, 25, 25)         \* 1 sample point
RectThin     == Rect(5, 5, 25, 8)          \* width 20, height 3: no sample point
RectEmpty    == Rect(10, 10, 10, 50)       \* right = left
RectOdd      == Rect(-30, 1, 61, 40)       \* positive odd sums
RectFarLeft  == Rect(-200, -100, -100, -40) \* all coordinates negative

Everywhere == Rect(-1000, -1000, 1000, 1000)
OverFull   == [rect |-> Everywhere, win |-> OtherRoot]
OverRight  == [rect |-> Rect(50, -1000, 1000, 1000), win |-> OtherRoot]
OverEdge   == [rect |-> Rect(80, -1000, 1000, 1000), win |-> OtherRoot]
OffScreen  == [rect |-> Rect(-1000, -1000, -50, 1000), win |-> NULL]

EnvsOf(H, C, R, O) == [fg : H, cond : C, wr : R, over : O]

\* Without a foreground window, or with one that is not asked about, the
\* geometry is never read: it is held at the plain one.
PlainEnv(h) == [fg |-> h, cond |-> {}, wr |-> RectPlain, over |-> NoOver]

\* A family of desktops: the windows whose geometry is held plain, and the
\* windows that take every condition, rectangle and overlay of the family.
Envs(fam) ==
    {PlainEnv(h) : h \in fam.plain} \cup EnvsOf(fam.varied, fam.cond, fam.wr, fam.over)

MainFamily ==
    [plain  |-> {NULL, 2},
     varied |-> {1, 3},
     cond   |-> {{}, {"invalid"}, {"iconic"}, {"noclient"}, {"closed_late"}},
     wr     |-> {RectPlain, RectNegative},
     over   |-> {NoOver, OverFull}]

GeometryFamily ==
    [plain  |-> {2},
     varied |-> {1},
     cond   |-> {{}} \cup
                {{c} : c \in {"invalid", "hidden", "iconic", "norect", "nogti",
                              "noactive", "childactive", "otheractive",
                              "capture_self", "capture_child", "capture_other",
                              "noclient", "fg_moved", "closed_late", "hidden_late",
                              "norect_late"}},
     wr     |-> {RectPlain, RectNegative, RectNine, RectOne, RectThin, RectEmpty},
     over   |-> {NoOver, OverFull, OverRight, OverEdge, OffScreen}]

ObserverFamily ==
    [plain  |-> {NULL, 2},
     varied |-> {1, 3},
     cond   |-> {{}, {"iconic"}, {"capture_other"}, {"norect_late"}},
     wr     |-> {RectPlain, RectNegative, RectOdd, RectFarLeft},
     over   |-> {NoOver, OverFull}]

IdentityFamily ==
    [plain  |-> {NULL, 2},
     varied |-> {1, 3, 4, 5},
     cond   |-> {{}, {"invalid"}},
     wr     |-> {RectPlain},
     over   |-> {NoOver, OverFull}]

StartupFamily ==
    [plain  |-> {NULL, 2},
     varied |-> {1},
     cond   |-> {{}, {"iconic"}},
     wr     |-> {RectPlain},
     over   |-> {NoOver}]

\* The window extents the sampling loops are followed over: below
\* SAMPLE_DIVISOR (a step of zero), around twice SAMPLE_MARGIN (where the first
\* sample point appears), and where a second, third and fourth one appear.
SampleWidths  == {1, 3, 4, 20, 21, 24, 40, 41, 84, 103}
SampleHeights == {3, 20, 21, 103}
SampleOrigins == {<<0, 0>>, <<-50, -7>>}

SamplingRects ==
    {Rect(o[1], o[2], o[1] + w, o[2] + h) :
        o \in SampleOrigins, w \in SampleWidths, h \in SampleHeights}

SamplingFamily ==
    [plain  |-> {2},
     varied |-> {1},
     cond   |-> {{}},
     wr     |-> SamplingRects,
     over   |-> {NoOver, OverFull}]

\* The desktops one change away from e: another window comes to the front, the
\* window moves or is resized, a condition sets in or ends, an overlay comes or goes.
Neighbours(e, fam) ==
    LET fgs   == {IF h \in fam.plain THEN PlainEnv(h) ELSE [e EXCEPT !.fg = h] :
                     h \in fam.plain \cup fam.varied}
        conds == {[e EXCEPT !.cond = c] : c \in fam.cond}
        rects == {[e EXCEPT !.wr = r] : r \in fam.wr}
        overs == {[e EXCEPT !.over = o] : o \in fam.over}
    IN  IF e.fg \in fam.plain THEN fgs \ {e}
        ELSE (fgs \cup conds \cup rects \cup overs) \ {e}

(***************************************************************************)
(* wmain's poll tick, lines 386-442, on the loop's locals                  *)
(*   m = [lastClipped, lastActive, osClip, clipArgs, logs].                *)
(***************************************************************************)
Log(m, line) == [m EXCEPT !.logs = Append(@, line)]

ClipCursor(m, rect) ==
    [m EXCEPT !.osClip = rect, !.clipArgs = Append(@, rect)]

\* ClipCursor(nullptr); lastClipped = false;
Release(m) == [ClipCursor(m, NoClip) EXCEPT !.lastClipped = FALSE]

\* As TickDisabled, releasing whether or not a clip is applied
TickDisabledAlwaysReleases(m) == Release(m)

\* lines 389-398
TickDisabled(m) == IF m.lastClipped THEN Release(m) ELSE m

\* lines 400-417
TickForeground(m, e) ==
    IF e.fg # m.lastActive
    THEN LET m1 == IF e.fg # NULL /\ IsMinecraftWindow(e)
                   THEN Log(m, "active")
                   ELSE IF m.lastClipped
                        THEN Log(Release(m), "not active")
                        ELSE m
         IN  [m1 EXCEPT !.lastActive = e.fg]
    ELSE m

\* As TickConfine, without the release of lines 434-442
TickConfineKeepsClip(m, e) ==
    IF e.fg # NULL /\ IsMinecraftWindow(e) /\ IsWindowActuallyVisibleAndTopmost(e)
    THEN LET clip == GetWindowClipRect(e)
         IN  IF clip.ok
             THEN LET m1 == IF ~m.lastClipped THEN Log(m, "clipping") ELSE m
                  IN  [ClipCursor(m1, clip.rect) EXCEPT !.lastClipped = TRUE]
             ELSE m
    ELSE m

\* As TickConfine, with the log line of lines 425-429 on every confining tick
TickConfineLogsAlways(m, e) ==
    IF e.fg # NULL /\ IsMinecraftWindow(e) /\ IsWindowActuallyVisibleAndTopmost(e)
    THEN LET clip == GetWindowClipRect(e)
         IN  IF clip.ok
             THEN [ClipCursor(Log(m, "clipping"), clip.rect) EXCEPT !.lastClipped = TRUE]
             ELSE m
    ELSE IF m.lastClipped
         THEN Log(Release(m), "not visible")
         ELSE m

\* As TickConfine, applying the rectangle only on entering Confined
TickConfineOnce(m, e) ==
    IF e.fg # NULL /\ IsMinecraftWindow(e) /\ IsWindowActuallyVisibleAndTopmost(e)
    THEN LET clip == GetWindowClipRect(e)
         IN  IF clip.ok /\ ~m.lastClipped
             THEN [ClipCursor(Log(m, "clipping"), clip.rect) EXCEPT !.lastClipped = TRUE]
             ELSE m
    ELSE IF m.lastClipped
         THEN Log(Release(m), "not visible")
         ELSE m

\* lines 419-442
TickConfine(m, e) ==
    IF e.fg # NULL /\ IsMinecraftWindow(e) /\ IsWindowActuallyVisibleAndTopmost(e)
    THEN LET clip == GetWindowClipRect(e)
         IN  IF clip.ok
             THEN LET m1 == IF ~m.lastClipped THEN Log(m, "clipping") ELSE m
                  IN  [ClipCursor(m1, clip.rect) EXCEPT !.lastClipped = TRUE]
             ELSE m
    ELSE IF m.lastClipped
         THEN Log(Release(m), "not visible")
         ELSE m

\* As PollTick, looking at the window only when the foreground window changed
PollTickOnForegroundChange(m, e, enabled) ==
    IF ~enabled THEN TickDisabled(m)
    ELSE IF e.fg # m.lastActive THEN TickConfine(TickForeground(m, e), e)
    ELSE m

PollTick(m, e, enabled) ==
    IF ~enabled THEN TickDisabled(m)
    ELSE TickConfine(TickForeground(m, e), e)

Locals ==
    [lastClipped |-> lastClipped, lastActive |-> lastActive, osClip |-> osClip,
     clipArgs |-> <<>>, logs |-> <<>>]

SetLocals(m) ==
    /\ lastClipped' = m.lastClipped
    /\ lastActive' = m.lastActive
    /\ osClip' = m.osClip
    /\ clipArgs' = m.clipArgs
    /\ logs' = m.logs

Alive == pc \notin {"exited", "killed"}

\* Every step records the confinement it started from; the configuration is
\* loaded and the registrations of lines 321 and 331 are made once, before the
\* loop.
Step(op) ==
    /\ lastOp' = op
    /\ prev' = [lastClipped |-> lastClipped, osClip |-> osClip,
                lastActive |-> lastActive, configFile |-> configFile]
    /\ UNCHANGED <<keyboardHook, hotkeyRegistered, configFile, loggedKeyName>>

(***************************************************************************)
(* The actions.                                                            *)
(***************************************************************************)
RecenterKeys == {VK_E, VK_TAB}

\* The state when wmain enters its loop, line 354, both registrations made
InitIn(envs, keys) ==
    /\ env \in envs
    /\ keyboardHook = TRUE
    /\ hotkeyRegistered = TRUE
    /\ clippingEnabled = TRUE
    /\ running = TRUE
    /\ recenterKey \in keys
    /\ configFile = <<GetKeyNameFromVK(recenterKey)>>
    /\ loggedKeyName = <<GetKeyNameFromVK(recenterKey)>>
    /\ lastActive = NULL
    /\ lastClipped = FALSE
    /\ osClip = NoClip
    /\ pc = "check"
    /\ hpc = "idle"
    /\ ctrlType = NoCtrl
    /\ lastOp = "none"
    /\ clipArgs = <<>>
    /\ logs = <<>>
    /\ prev = [lastClipped |-> FALSE, osClip |-> NoClip, lastActive |-> NULL,
               configFile |-> configFile]
    /\ hook = NoHook

\* The desktop changes in one respect.
EnvChangeIn(fam) ==
    /\ Alive
    /\ env' \in Neighbours(env, fam)
    /\ Step("none")
    /\ clipArgs' = <<>> /\ logs' = <<>> /\ hook' = NoHook
    /\ UNCHANGED <<clippingEnabled, running, recenterKey, lastActive, lastClipped,
                   osClip, pc, hpc, ctrlType>>

\* while (running.load())
LoopCheck ==
    /\ pc = "check"
    /\ pc' = IF running THEN "body" ELSE "cleanup"
    /\ Step("none")
    /\ clipArgs' = <<>> /\ logs' = <<>> /\ hook' = NoHook
    /\ UNCHANGED <<env, clippingEnabled, running, recenterKey, lastActive,
                   lastClipped, osClip, hpc, ctrlType>>

\* As Hotkey, leaving the release to the next poll tick
HotkeyLateRelease ==
    /\ pc = "body"
    /\ hotkeyRegistered
    /\ clippingEnabled' = ~clippingEnabled
    /\ IF ~clippingEnabled'
       THEN SetLocals(Log(Locals, "disabled"))
       ELSE SetLocals(Log(Locals, "enabled"))
    /\ Step("Hotkey")
    /\ hook' = NoHook
    /\ UNCHANGED <<env, running, recenterKey, pc, hpc, ctrlType>>

\* The pump takes WM_HOTKEY with wParam 1, lines 359-376
Hotkey ==
    /\ pc = "body"
    /\ hotkeyRegistered
    /\ clippingEnabled' = ~clippingEnabled
    /\ IF ~clippingEnabled'
       THEN SetLocals(Log(Release(Locals), "disabled"))
       ELSE SetLocals(Log(Locals, "enabled"))
    /\ Step("Hotkey")
    /\ hook' = NoHook
    /\ UNCHANGED <<env, running, recenterKey, pc, hpc, ctrlType>>

\* now - lastPoll >= POLL_MS: the poll tick, then the loop's next iteration
Tick ==
    /\ pc = "body"
    /\ SetLocals(PollTick(Locals, env, clippingEnabled))
    /\ pc' = "check"
    /\ Step("Tick")
    /\ hook' = NoHook
    /\ UNCHANGED <<env, clippingEnabled, running, recenterKey, hpc, ctrlType>>

\* now - lastPoll < POLL_MS: no tick in this iteration
Sleep ==
    /\ pc = "body"
    /\ pc' = "check"
    /\ Step("none")
    /\ clipArgs' = <<>> /\ logs' = <<>> /\ hook' = NoHook
    /\ UNCHANGED <<env, clippingEnabled, running, recenterKey, lastActive,
                   lastClipped, osClip, hpc, ctrlType>>

\* lines 449-459
Cleanup ==
    /\ pc = "cleanup"
    /\ osClip' = NoClip
    /\ clipArgs' = <<NoClip>>
    /\ logs' = <<"exiting">>
    /\ pc' = "exited"
    /\ Step("none")
    /\ hook' = NoHook
    /\ UNCHANGED <<env, clippingEnabled, running, recenterKey, lastActive,
                   lastClipped, hpc, ctrlType>>

(***************************************************************************)
(* LowLevelKeyboardProc(nCode, wParam, lParam), lParam pointing to a       *)
(* KBDLLHOOKSTRUCT with the given vkCode; next is what CallNextHookEx      *)
(* returns.                                                                *)
(***************************************************************************)
\* As HookSetPos, on key-up as well as key-down
HookSetPosAnyTransition(nCode, wParam, vkCode) ==
    IF /\ nCode = HC_ACTION
       /\ env.fg # NULL /\ IsMinecraftWindow(env) /\ IsWindowActuallyVisibleAndTopmost(env)
       /\ (vkCode = recenterKey \/ vkCode = VK_ESCAPE)
    THEN RecenterCursor(env)
    ELSE <<>>

\* As HookSetPos, only while clipping is enabled
HookSetPosWhenEnabled(nCode, wParam, vkCode) ==
    IF /\ nCode = HC_ACTION
       /\ (wParam = WM_KEYDOWN \/ wParam = WM_SYSKEYDOWN)
       /\ clippingEnabled
       /\ env.fg # NULL /\ IsMinecraftWindow(env) /\ IsWindowActuallyVisibleAndTopmost(env)
       /\ (vkCode = recenterKey \/ vkCode = VK_ESCAPE)
    THEN RecenterCursor(env)
    ELSE <<>>

\* The arguments of SetCursorPos in this call, <<>> when it is not called
HookSetPos(nCode, wParam, vkCode) ==
    IF /\ nCode = HC_ACTION
       /\ (wParam = WM_KEYDOWN \/ wParam = WM_SYSKEYDOWN)
       /\ env.fg # NULL /\ IsMinecraftWindow(env) /\ IsWindowActuallyVisibleAndTopmost(env)
       /\ (vkCode = recenterKey \/ vkCode = VK_ESCAPE)
    THEN RecenterCursor(env)
    ELSE <<>>

\* CallNextHookEx(keyboardHook, nCode, wParam, lParam): its arguments, and the
\* hook's return value given what it returned
HookForward(nCode, wParam, vkCode) == <<nCode, wParam, vkCode>>

\* As HookReturn, reporting a recentering key as handled
HookReturnConsumes(nCode, wParam, vkCode, next) ==
    IF HookSetPos(nCode, wParam, vkCode) # <<>> THEN 1 ELSE next

HookReturn(nCode, wParam, vkCode, next) == next

\* As LowLevelKeyboardProc, switching clipping back on when it recenters
LowLevelKeyboardProcEnablesClipping(nCode, wParam, vkCode, next) ==
    /\ pc = "body"
    /\ keyboardHook
    /\ hook' = <<[nCode |-> nCode, wParam |-> wParam, vkCode |-> vkCode,
                 setPos |-> HookSetPos(nCode, wParam, vkCode),
                 forwarded |-> HookForward(nCode, wParam, vkCode),
                 next |-> next,
                 ret |-> HookReturn(nCode, wParam, vkCode, next)]>>
    /\ clippingEnabled' = (clippingEnabled \/ HookSetPos(nCode, wParam, vkCode) # <<>>)
    /\ Step("none")
    /\ clipArgs' = <<>> /\ logs' = <<>>
    /\ UNCHANGED <<env, running, recenterKey, lastActive,
                   lastClipped, osClip, pc, hpc, ctrlType>>

LowLevelKeyboardProc(nCode, wParam, vkCode, next) ==
    /\ pc = "body"
    /\ keyboardHook
    /\ hook' = <<[nCode |-> nCode, wParam |-> wParam, vkCode |-> vkCode,
                 setPos |-> HookSetPos(nCode, wParam, vkCode),
                 forwarded |-> HookForward(nCode, wParam, vkCode),
                 next |-> next,
                 ret |-> HookReturn(nCode, wParam, vkCode, next)]>>
    /\ Step("none")
    /\ clipArgs' = <<>> /\ logs' = <<>>
    /\ UNCHANGED <<env, clippingEnabled, running, recenterKey, lastActive,
                   lastClipped, osClip, pc, hpc, ctrlType>>

\* The key events of the whole program's specification
KeyEvent ==
    \E wParam \in {WM_KEYDOWN, WM_KEYUP}, vkCode \in {VK_E, VK_ESCAPE} :
        LowLevelKeyboardProc(HC_ACTION, wParam, vkCode, 0)

\* The hook's calls in the observer's specification
HookCall ==
    \E nCode \in {HC_ACTION, -1},
       wParam \in {WM_KEYDOWN, WM_KEYUP, WM_SYSKEYDOWN, WM_SYSKEYUP},
       vkCode \in {VK_E, VK_TAB, VK_ESCAPE},
       next \in {0, 1} :
        LowLevelKeyboardProc(nCode, wParam, vkCode, next)

(***************************************************************************)
(* ConsoleCtrlHandler, on the handler thread.                              *)
(***************************************************************************)
CtrlTypes ==
    {CTRL_C_EVENT, CTRL_BREAK_EVENT, CTRL_CLOSE_EVENT, CTRL_LOGOFF_EVENT,
     CTRL_SHUTDOWN_EVENT}

\* running.store(false)
CtrlStore ==
    /\ Alive /\ hpc = "idle"
    /\ \E t \in CtrlTypes : ctrlType' = t
    /\ running' = FALSE
    /\ hpc' = "release"
    /\ Step("none")
    /\ clipArgs' = <<>> /\ logs' = <<>> /\ hook' = NoHook
    /\ UNCHANGED <<env, clippingEnabled, recenterKey, lastActive, lastClipped,
                   osClip, pc>>

\* ClipCursor(nullptr); return TRUE
CtrlRelease ==
    /\ Alive /\ hpc = "release"
    /\ osClip' = NoClip
    /\ clipArgs' = <<NoClip>>
    /\ hpc' = "returned"
    /\ Step("none")
    /\ logs' = <<>> /\ hook' = NoHook
    /\ UNCHANGED <<env, clippingEnabled, running, recenterKey, lastActive,
                   lastClipped, pc, ctrlType>>

\* The handler returned TRUE for a close, logoff or shutdown event: the system
\* ends the process, wherever the main thread is.
Kill ==
    /\ Alive /\ hpc = "returned"
    /\ ctrlType \in {CTRL_CLOSE_EVENT, CTRL_LOGOFF_EVENT, CTRL_SHUTDOWN_EVENT}
    /\ pc' = "killed"
    /\ Step("none")
    /\ clipArgs' = <<>> /\ logs' = <<>> /\ hook' = NoHook
    /\ UNCHANGED <<env, clippingEnabled, running, recenterKey, lastActive,
                   lastClipped, osClip, hpc, ctrlType>>

Init == InitIn(Envs(MainFamily), {VK_E})

EnvChange == EnvChangeIn(MainFamily)

Next ==
    \/ EnvChange
    \/ LoopCheck
    \/ Hotkey
    \/ KeyEvent
    \/ Tick
    \/ Sleep
    \/ Cleanup
    \/ CtrlStore
    \/ CtrlRelease
    \/ Kill

Spec == Init /\ [][Next]_vars

(***************************************************************************)
(* The poll loop alone over the wide range of window geometries.           *)
(***************************************************************************)
InitGeometry == InitIn(Envs(GeometryFamily), {VK_E})

GeometryChange == EnvChangeIn(GeometryFamily)

NextGeometry ==
    \/ GeometryChange
    \/ LoopCheck
    \/ Tick

SpecGeometry == InitGeometry /\ [][NextGeometry]_vars

(***************************************************************************)
(* The keyboard hook over the wide range of its arguments.                 *)
(***************************************************************************)
InitObserver == InitIn(Envs(ObserverFamily), RecenterKeys)

ObserverChange == EnvChangeIn(ObserverFamily)

NextObserver ==
    \/ ObserverChange
    \/ LoopCheck
    \/ Hotkey
    \/ HookCall

SpecObserver == InitObserver /\ [][NextObserver]_vars

(***************************************************************************)
(* The poll loop over every window of the desktop, whatever its process    *)
(* and title.                                                              *)
(***************************************************************************)
InitIdentity == InitIn(Envs(IdentityFamily), {VK_E})

IdentityChange == EnvChangeIn(IdentityFamily)

NextIdentity ==
    \/ IdentityChange
    \/ LoopCheck
    \/ Tick

SpecIdentity == InitIdentity /\ [][NextIdentity]_vars

(***************************************************************************)
(* The whole program from the first line of wmain: the registrations of    *)
(* lines 321 and 331 succeed or fail.                                      *)
(***************************************************************************)
InitStartupIn(envs, files) ==
    /\ env \in envs
    /\ configFile \in files
    /\ loggedKeyName = <<>>
    /\ keyboardHook = FALSE
    /\ hotkeyRegistered = FALSE
    /\ clippingEnabled = TRUE
    /\ running = TRUE
    /\ recenterKey = VK_E
    /\ lastActive = NULL
    /\ lastClipped = FALSE
    /\ osClip = NoClip
    /\ pc = "start"
    /\ hpc = "idle"
    /\ ctrlType = NoCtrl
    /\ lastOp = "none"
    /\ clipArgs = <<>>
    /\ logs = <<>>
    /\ prev = [lastClipped |-> FALSE, osClip |-> NoClip, lastActive |-> NULL,
               configFile |-> configFile]
    /\ hook = NoHook

InitStartup == InitStartupIn(Envs(StartupFamily), {<<DEFAULT_LINE>>})

\* Where wmain goes after the registrations with outcomes hk and hh
StartupExitsOnFailure(hk, hh) == IF hk /\ hh THEN "check" ELSE "exited"

\* lines 320-354: neither outcome is tested for anything but the log line
StartupGoesTo(hk, hh) == "check"

\* lines 310-352
Startup ==
    /\ pc = "start"
    /\ \E canCreate \in BOOLEAN, hk \in BOOLEAN, hh \in BOOLEAN :
          LET loaded == LoadRecenterKeyFromConfig(configFile, canCreate)
          IN  /\ recenterKey' = loaded.key
              /\ configFile' = loaded.file
              /\ hotkeyRegistered' = hk
              /\ keyboardHook' = hh
              /\ loggedKeyName' = IF hh THEN <<GetKeyNameFromVK(loaded.key)>>
                                        ELSE loaded.keyName
              /\ logs' = loaded.logs \o
                         <<IF hk THEN "hotkey ready" ELSE "hotkey failed",
                           IF hh THEN "hook ready" ELSE "hook failed">>
              /\ pc' = StartupGoesTo(hk, hh)
    /\ lastOp' = "Startup"
    /\ prev' = [lastClipped |-> lastClipped, osClip |-> osClip,
                lastActive |-> lastActive, configFile |-> configFile]
    /\ clipArgs' = <<>> /\ hook' = NoHook
    /\ UNCHANGED <<env, clippingEnabled, running, lastActive,
                   lastClipped, osClip, hpc, ctrlType>>

StartupChange == EnvChangeIn(StartupFamily)

NextStartup ==
    \/ Startup
    \/ StartupChange
    \/ LoopCheck
    \/ Hotkey
    \/ KeyEvent
    \/ Tick
    \/ Sleep
    \/ Cleanup
    \/ CtrlStore
    \/ CtrlRelease
    \/ Kill

SpecStartup == InitStartup /\ [][NextStartup]_vars

(***************************************************************************)
(* Startup over the contents of config.txt, then the keyboard hook with    *)
(* the key that was loaded.                                                *)
(***************************************************************************)
\* First lines that are no key name, or none after trimming
OtherLines ==
    {<<>>, <<" ">>, <<" ", "\t", " ">>,
     <<"F","O","O">>, <<"E"," ","X">>, <<"E","E">>, <<"F","1","3">>,
     <<"V","K","_">>, <<"-">>, <<"U","N","K","N","O","W","N">>}

\* Key names in other spellings: lower case, mixed case, with whitespace around
OtherSpellings ==
    {<<"e">>, <<"q">>, <<"t","a","b">>, <<"T","a","b">>, <<" ","T","A","B","\t">>,
     <<"v","k","_","f","1","2">>, <<"\t","l","s","h","i","f","t"," "," ">>,
     <<"n","u","m","p","a","d","7","\r">>, <<" ","7">>}

ConfigFiles ==
    {<<>>} \cup {<<line>> : line \in DOMAIN GetKeyNameMap \cup OtherSpellings \cup OtherLines}

InitConfig == InitStartupIn({PlainEnv(1)}, ConfigFiles)

NextConfig ==
    \/ Startup
    \/ LoopCheck
    \/ KeyEvent

SpecConfig == InitConfig /\ [][NextConfig]_vars

(***************************************************************************)
(* The poll loop over window rectangles of every size class of the         *)
(* sampling loops.                                                         *)
(***************************************************************************)
InitSampling == InitIn(Envs(SamplingFamily), {VK_E})

SamplingChange == EnvChangeIn(SamplingFamily)

NextSampling ==
    \/ SamplingChange
    \/ LoopCheck
    \/ Tick

SpecSampling == InitSampling /\ [][NextSampling]_vars

(***************************************************************************)
(* Properties.                                                             *)
(***************************************************************************)
IsTarget(e) == e.fg # NULL /\ IsMinecraftWindow(e)

\* C1: after every poll tick the state is Confined only if on that tick
\* clipping was enabled and the foreground window was the target and passed
\* the visibility check; a tick that sees a foreground window that is not the
\* target (or none) ends Released with the OS clip removed.
C1_ConfinedOnlyVisibleTarget ==
    lastOp = "Tick" =>
        /\ (lastClipped \/ osClip # NoClip) =>
              /\ clippingEnabled
              /\ IsTarget(env)
              /\ IsWindowActuallyVisibleAndTopmost(env)
        /\ ~IsTarget(env) => (~lastClipped /\ osClip = NoClip)

\* A tick released a confinement because another window came to the front.
C1_Witness ==
    /\ lastOp = "Tick"
    /\ prev.lastClipped /\ prev.osClip # NoClip
    /\ env.fg = 2
    /\ ~lastClipped /\ osClip = NoClip
    /\ clipArgs = <<NoClip>>

\* C2: while ClippingEnabled is false the state is Released and no clip
\* rectangle is applied, from the step that handles the hotkey on and through
\* every tick, key event and change of the desktop that follows.
C2_DisabledIsReleased ==
    ~clippingEnabled => (~lastClipped /\ osClip = NoClip)

\* The hotkey step itself released a confinement, the target still visible.
C2_Witness ==
    /\ lastOp = "Hotkey"
    /\ ~clippingEnabled
    /\ prev.lastClipped /\ prev.osClip # NoClip
    /\ clipArgs = <<NoClip>>
    /\ IsTarget(env) /\ IsWindowActuallyVisibleAndTopmost(env)

\* C3: when a termination signal has arrived, the OS clip is removed by the
\* time the process has exited (wmain returned, or the system ended it).
C3_ExitedIsReleased ==
    (pc \in {"exited", "killed"} /\ ctrlType # NoCtrl) => osClip = NoClip

\* C4: on a tick with clipping enabled and the target in the foreground, when
\* the visibility check or the clip rectangle query yields no region, the state
\* after the tick is Released with the OS clip removed.
C4_NoRegionIsReleased ==
    ( /\ lastOp = "Tick"
      /\ clippingEnabled
      /\ IsTarget(env)
      /\ (~IsWindowActuallyVisibleAndTopmost(env) \/ ~GetWindowClipRect(env).ok) )
    => (~lastClipped /\ osClip = NoClip)

\* C5: every call of the keyboard hook forwards the event to the next hook
\* with the arguments it was given and returns what the next hook returned.
C5_HookForwards ==
    hook # NoHook =>
        /\ hook[1].forwarded = <<hook[1].nCode, hook[1].wParam, hook[1].vkCode>>
        /\ hook[1].ret = hook[1].next

\* The hook recentered the pointer and still returned the next hook's 0.
C5_Witness ==
    /\ hook # NoHook
    /\ hook[1].setPos # <<>>
    /\ hook[1].next = 0 /\ hook[1].ret = 0

\* c is s / 2 as C computes it: the half of s, rounded toward zero.
IsHalfTowardZero(c, s) ==
    \/ 2 * c = s
    \/ s > 0 /\ 2 * c = s - 1
    \/ s < 0 /\ 2 * c = s + 1

\* C6: a key-down of the recenter key while the target is in the foreground
\* and passes the visibility check sets the pointer to the center
\* ((left+right)/2, (top+bottom)/2) of the window rectangle GetWindowRect
\* yields, whatever the signs and parities of its coordinates.
C6_RecenterToWindowCenter ==
    ( /\ hook # NoHook
      /\ hook[1].nCode = HC_ACTION
      /\ hook[1].wParam \in {WM_KEYDOWN, WM_SYSKEYDOWN}
      /\ hook[1].vkCode = recenterKey
      /\ IsTarget(env) /\ IsWindowActuallyVisibleAndTopmost(env)
      /\ GetWindowRectOk(env, 2) )
    => /\ Len(hook[1].setPos) = 2
       /\ IsHalfTowardZero(hook[1].setPos[1], env.wr.left + env.wr.right)
       /\ IsHalfTowardZero(hook[1].setPos[2], env.wr.top + env.wr.bottom)

\* The recenter key moved the pointer to the center of a window whose
\* coordinate sums are negative and odd.
C6_Witness ==
    /\ hook # NoHook
    /\ hook[1].vkCode = recenterKey
    /\ env.wr = RectNegative
    /\ hook[1].setPos = <<-50, -20>>

\* C7: the hook moves the pointer only on a key-down (WM_KEYDOWN or
\* WM_SYSKEYDOWN) with nCode HC_ACTION of the recenter key or Escape while the
\* foreground window is the target and passes the visibility check.
C7_MovesOnlyOnRecenter ==
    (hook # NoHook /\ hook[1].setPos # <<>>) =>
        /\ hook[1].nCode = HC_ACTION
        /\ hook[1].wParam \in {WM_KEYDOWN, WM_SYSKEYDOWN}
        /\ IsTarget(env) /\ IsWindowActuallyVisibleAndTopmost(env)
        /\ hook[1].vkCode \in {recenterKey, VK_ESCAPE}

\* Escape, which is not the configured key, moved the pointer on WM_SYSKEYDOWN.
C7_Witness ==
    /\ hook # NoHook
    /\ hook[1].setPos # <<>>
    /\ recenterKey = VK_TAB
    /\ hook[1].vkCode = VK_ESCAPE
    /\ hook[1].wParam = WM_SYSKEYDOWN

\* C8: the rectangle a tick confines the pointer to is the window's client
\* area in screen coordinates, and the window rectangle only when the client
\* area query fails.
C8_ClipIsClientArea ==
    lastOp = "Tick" =>
        \A i \in 1..Len(clipArgs) :
            clipArgs[i] # NoClip =>
                clipArgs[i] =
                    <<IF "noclient" \in env.cond
                      THEN env.wr
                      ELSE Rect(env.wr.left + Frame, env.wr.top + Frame + Caption,
                                env.wr.right - Frame, env.wr.bottom - Frame)>>

\* A tick confined the pointer to a client area that differs from the window.
C8_Witness ==
    /\ lastOp = "Tick"
    /\ lastClipped
    /\ "noclient" \notin env.cond
    /\ clipArgs = <<osClip>>
    /\ osClip # NoClip /\ osClip # <<env.wr>>

\* C9: a foreground, unminimized target with a non-degenerate rectangle is
\* Confined after a tick when at least 75% of its sample points resolve to its
\* own window tree, and Released when fewer than 75% do.
C9_SeventyFivePercent ==
    ( /\ lastOp = "Tick"
      /\ clippingEnabled
      /\ IsTarget(env)
      /\ env.cond = {}
      /\ env.wr.right > env.wr.left /\ env.wr.bottom > env.wr.top )
    => (lastClipped <=> 4 * PassedChecks(env) >= 3 * NumChecks(env))

\* The rectangle a tick aims at: NoClip for Released.
TargetClip(e, enabled) ==
    IF enabled /\ IsTarget(e) /\ IsWindowActuallyVisibleAndTopmost(e)
               /\ GetWindowClipRect(e).ok
    THEN GetWindowClipRect(e).rect
    ELSE NoClip

Lines(log) == {log[i] : i \in 1..Len(log)}

\* C11: a poll tick that follows a poll tick, with the foreground window, its
\* visibility and its geometry unchanged, logs nothing; a tick logs the
\* clipping line only when it takes the flag from Released to Confined, a
\* released line only when it takes it from Confined to Released, and the
\* active line only when the foreground window differs from lastActive, which
\* is the foreground window of the previous enabled tick.
C11_LogsOnlyOnChange ==
    /\ lastOp = "Tick" =>
          /\ PollTick(Locals, env, clippingEnabled).logs = <<>>
          /\ "clipping" \in Lines(logs) => (~prev.lastClipped /\ lastClipped)
          /\ (Lines(logs) \cap {"not active", "not visible"} # {})
                => (prev.lastClipped /\ ~lastClipped)
          /\ "active" \in Lines(logs)
                => (clippingEnabled /\ env.fg # prev.lastActive)
          /\ lastActive = IF clippingEnabled THEN env.fg ELSE prev.lastActive
    /\ lastOp # "Tick" => lastActive = prev.lastActive

\* A tick found the pointer confined, confined it again and logged nothing.
C11_Witness ==
    /\ lastOp = "Tick"
    /\ prev.lastClipped /\ lastClipped
    /\ prev.lastActive = env.fg
    /\ clipArgs # <<>>
    /\ logs = <<>>

\* C12: in every state between the steps of a running program, the flag
\* lastClipped is true exactly when the program's most recent ClipCursor call
\* applied a rectangle, across every interleaving of ticks, hotkey steps and
\* the termination handler.
C12_FlagMatchesClip ==
    Alive => (lastClipped <=> osClip # NoClip)

\* The identity the claim describes: the executable name decides when the
\* process query yields one, the title only when it yields none.
TitleOnlyWhenQueryFails(e) ==
    /\ e.fg # NULL
    /\ IsWindow(e, 1)
    /\ IF Windows[e.fg].exe # <<>>
       THEN WcsICmpEqual(Windows[e.fg].exe, TARGET_EXE)
       ELSE WcsStr(Windows[e.fg].title, TITLE_NEEDLE)

\* C13: IsMinecraftWindow is true when the executable name of the owning
\* process equals the target name case-insensitively, looks at the title only
\* when the process query fails, and is false for a null or invalid handle; a
\* window whose process query yields another executable name is not the target.
C13_TitleOnlyWhenQueryFails ==
    (lastOp = "Tick" /\ clippingEnabled)
    => (IsMinecraftWindow(env) <=> TitleOnlyWhenQueryFails(env))

\* C14: whatever the outcomes of the two registrations at startup, the program
\* leaves its loop only on a control event, its ticks confine and release as the
\* desktop says, and only the events of a failed registration are missing: no
\* toggle without the hotkey, no hook call without the hook.
C14_RegistrationFailureNotFatal ==
    /\ pc \in {"cleanup", "exited", "killed"} => ctrlType # NoCtrl
    /\ lastOp = "Tick" =>
          /\ TargetClip(env, clippingEnabled) # NoClip
                => (lastClipped /\ osClip = TargetClip(env, clippingEnabled))
          /\ (~clippingEnabled \/ ~IsTarget(env)
                \/ ~IsWindowActuallyVisibleAndTopmost(env))
                => (~lastClipped /\ osClip = NoClip)
    /\ ~hotkeyRegistered => (clippingEnabled /\ lastOp # "Hotkey")
    /\ ~keyboardHook => hook = NoHook

\* Both registrations failed and a tick confined the pointer.
C14_Witness ==
    /\ ~hotkeyRegistered /\ ~keyboardHook
    /\ lastOp = "Tick"
    /\ ~prev.lastClipped
    /\ lastClipped /\ osClip # NoClip
    /\ "clipping" \in Lines(logs)

\* Every character of the line is white space (an empty line included).
OnlyWhitespace(line) ==
    \A i \in 1..Len(line) : line[i] \in {" ", "\t", "\n", "\r", "\f"}

\* The key the claim says a first line yields
KeyOfLine(line) ==
    IF OnlyWhitespace(line) \/ ParseKeyName(Trim(line)) = 0
    THEN VK_E
    ELSE ParseKeyName(Trim(line))

\* C15, as claimed: loading the recenter key yields a non-zero key code: 'E'
\* when the configuration file is absent, and the file is then created holding
\* the default; 'E' when its first line is empty, only white space or no key
\* name the resolver accepts; otherwise the resolver's code for the trimmed line.
C15_LoadCreatesDefaultFile ==
    lastOp = "Startup" =>
        /\ recenterKey # 0
        /\ prev.configFile = <<>>
              => (recenterKey = VK_E /\ configFile = <<DEFAULT_LINE>>)
        /\ prev.configFile # <<>>
              => recenterKey = KeyOfLine(prev.configFile[1])

\* C15, amended: as claimed, except that an absent file is created holding
\* the default only when it can be opened for writing and stays absent
\* otherwise; a file that was there is left as it was.
C15_LoadYieldsValidKey ==
    lastOp = "Startup" =>
        /\ recenterKey # 0
        /\ prev.configFile = <<>>
              => (recenterKey = VK_E /\ configFile \in {<<>>, <<DEFAULT_LINE>>})
        /\ prev.configFile # <<>>
              => /\ recenterKey = KeyOfLine(prev.configFile[1])
                 /\ configFile = prev.configFile

\* The file was absent and could not be created: the default key is in use.
C15_Witness ==
    /\ lastOp = "Startup"
    /\ prev.configFile = <<>>
    /\ configFile = <<>>
    /\ recenterKey = VK_E
    /\ "config not found" \in Lines(logs)

\* C16: for every key name n that ParseKeyName accepts, the name
\* GetKeyNameFromVK gives for ParseKeyName(n) is not the unknown marker and
\* parses back to the same code:
\* ParseKeyName(GetKeyNameFromVK(ParseKeyName(n))) = ParseKeyName(n).
C16_NameForKeyInvertsParse ==
    ( /\ lastOp = "Startup"
      /\ prev.configFile # <<>>
      /\ ParseKeyName(prev.configFile[1]) # 0 )
    => /\ loggedKeyName # <<>>
       /\ loggedKeyName[1] # UNKNOWN_NAME
       /\ ParseKeyName(loggedKeyName[1]) = ParseKeyName(prev.configFile[1])

\* C17: after a poll tick that finds clipping enabled, the target in the
\* foreground and passing the visibility check, and its geometry queries
\* succeeding, the state is Confined and the rectangle of that tick is applied,
\* whatever the state before the tick.
C17_ConfinedAfterTick ==
    ( /\ lastOp = "Tick"
      /\ clippingEnabled
      /\ IsTarget(env)
      /\ IsWindowActuallyVisibleAndTopmost(env)
      /\ GetWindowClipRect(env).ok )
    => (lastClipped /\ osClip = GetWindowClipRect(env).rect)

\* A tick confined the pointer from Released although the foreground window
\* was the one of the previous enabled tick: the first tick after the hotkey
\* enabled clipping again, or after the window became visible again.
C17_Witness ==
    /\ lastOp = "Tick"
    /\ ~prev.lastClipped /\ prev.osClip = NoClip
    /\ prev.lastActive = env.fg
    /\ lastClipped /\ osClip # NoClip
    /\ logs = <<"clipping">>

\* C18: a poll tick makes at most one ClipCursor call on every path, and
\* exactly one when the state it aims at differs from the state applied before
\* it (Released to Confined, Confined to Released, Confined to another
\* rectangle).
C18_OneClipCallPerTick ==
    lastOp = "Tick" =>
        /\ Len(clipArgs) <= 1
        /\ TargetClip(env, clippingEnabled) # prev.osClip => Len(clipArgs) = 1

\* C19: after every tick that ends in Confined and whose rectangle query
\* succeeded, the rectangle applied is the one computed from the window's
\* geometry on that tick, by a ClipCursor call of that tick, wherever the
\* window was on earlier ticks.
C19_ClipTracksWindow ==
    (lastOp = "Tick" /\ lastClipped /\ GetWindowClipRect(env).ok)
    => /\ osClip = GetWindowClipRect(env).rect
       /\ clipArgs = <<osClip>>

\* The window moved while the pointer was confined: the tick replaced the
\* rectangle applied before by the one of the window's new place.
C19_Witness ==
    /\ lastOp = "Tick"
    /\ prev.lastClipped /\ prev.osClip # NoClip
    /\ lastClipped
    /\ osClip # prev.osClip
    /\ osClip = GetWindowClipRect(env).rect
    /\ logs = <<>>

\* C20: once the termination handler has cleared `running` and released the
\* clip, no later step of the main loop applies a rectangle: the clip stays
\* removed from the handler's return on, whether the loop goes on to its
\* cleanup or the process is ended first.
C20_HandlerReleaseIsFinal ==
    hpc = "returned" => osClip = NoClip

\* C21: for every window rectangle with right > left and bottom > top, widths
\* and heights below 4 (a step of zero) included, each sampling loop ends
\* after at most 4 positions, so at most 16 sample points are examined; and
\* when no sample point is examined the sampling test does not reject the
\* window: a tick on the otherwise plain foreground target confines to it.
C21_SamplingLoopsEnd ==
    (env.wr.right > env.wr.left /\ env.wr.bottom > env.wr.top) =>
        /\ Len(SampleXs(env.wr)) <= 4 /\ Len(SampleXs(env.wr)) < LoopFuel
        /\ Len(SampleYs(env.wr)) <= 4 /\ Len(SampleYs(env.wr)) < LoopFuel
        /\ NumChecks(env) <= 16
        /\ NumChecks(env) = 0 =>
              /\ ~SamplingRejects(env)
              /\ ( /\ lastOp = "Tick" /\ clippingEnabled
                    /\ IsTarget(env) /\ env.cond = {} ) => lastClipped

\* A tick confined to a window 3 wide, whose step is zero and which lies
\* wholly behind another window: no sample point was examined.
C21_Witness ==
    /\ lastOp = "Tick"
    /\ IsTarget(env)
    /\ env.wr.right - env.wr.left = 3
    /\ CDiv(env.wr.right - env.wr.left, SAMPLE_DIVISOR) = 0
    /\ env.over = OverFull
    /\ NumChecks(env) = 0
    /\ lastClipped /\ osClip # NoClip

\* C22: a call of the keyboard hook changes nothing but the pointer position:
\* it leaves ClippingEnabled, the 'currently confined' flag, the
\* last-foreground record, RecenterKey, the shutdown flag and the applied OS
\* clip rectangle as they were, whatever its arguments and whether or not it
\* recenters.
C22_HookChangesOnlyPointer ==
    [][hook' # NoHook =>
          UNCHANGED <<clippingEnabled, lastClipped, lastActive, recenterKey,
                      running, osClip>>]_vars

\* The hook recentered the pointer while the program was Confined, and the
\* confinement is what it was before the call.
C22_Witness ==
    /\ hook # NoHook
    /\ hook[1].setPos # <<>>
    /\ clippingEnabled /\ running
    /\ lastClipped /\ prev.lastClipped
    /\ osClip # NoClip /\ osClip = prev.osClip
    /\ lastActive = env.fg /\ lastActive = prev.lastActive

\* C23: whether and where a call of the keyboard hook moves the pointer is
\* determined by the key event, RecenterKey and the foreground window alone,
\* so two states that differ only in ClippingEnabled or the 'currently
\* confined' flag move it alike for the same key event; with clipping
\* disabled, a key-down of the recenter key or Escape while the target is in
\* the foreground and visible still moves the pointer to the window center.
C23_RecenterIgnoresConfinement ==
    hook # NoHook =>
        LET recenters ==
                /\ hook[1].nCode = HC_ACTION
                /\ hook[1].wParam \in {WM_KEYDOWN, WM_SYSKEYDOWN}
                /\ hook[1].vkCode \in {recenterKey, VK_ESCAPE}
                /\ IsTarget(env) /\ IsWindowActuallyVisibleAndTopmost(env)
                /\ GetWindowRectOk(env, 2)
        IN  hook[1].setPos =
                IF recenters
                THEN <<CDiv(env.wr.left + env.wr.right, 2),
                       CDiv(env.wr.top + env.wr.bottom, 2)>>
                ELSE <<>>

\* With clipping disabled by the hotkey and the pointer released, Escape
\* moved the pointer to the center of the visible target.
C23_Witness ==
    /\ hook # NoHook
    /\ ~clippingEnabled /\ ~lastClipped /\ osClip = NoClip
    /\ hook[1].vkCode = VK_ESCAPE
    /\ hook[1].wParam = WM_KEYDOWN
    /\ IsTarget(env) /\ IsWindowActuallyVisibleAndTopmost(env)
    /\ env.wr = RectNegative
    /\ hook[1].setPos = <<-50, -20>>

=============================================================================
